---- MODULE Spec2Model ----
(***************************************************************************)
(* Model of src/Location-Tracker.py: the geolocation provider adapter      *)
(* (GeolocationAPI.get_location_by_ip), the multi-source resolution and    *)
(* reconciliation (GeolocationAPI.get_location_multi_source) and the       *)
(* tracker operations built on them (AdvancedLocationTracker.track_ip,     *)
(* get_own_location with NetworkInfo.get_public_ip, _validate_ip,          *)
(* bulk_track_ips), the persistence (DatabaseManager.save_tracking_result, *)
(* get_tracking_history, clear_history and the application's clear_history *)
(* menu entry) and the license manager (SimpleLicenseManager.validate,     *)
(* has_feature).                                                           *)
(*                                                                         *)
(* Python values are tagged records [t, s, n, d]:                          *)
(*   t = "absent"  the key is not in the dict                              *)
(*   t = "null"    None                                                    *)
(*   t = "str"     a string, s its sequence of characters                  *)
(*   t = "int"     an integer n                                            *)
(*   t = "bool"    a boolean, n = 1 for True                               *)
(*   t = "float"   the number n/d in lowest terms, d > 0.  Floats are      *)
(*                 modelled as exact rationals: rounding of IEEE doubles   *)
(*                 is not modelled.                                        *)
(* A dict is a function from its possible keys to values, "absent" for a   *)
(* key that is not in it.                                                  *)
(* Characters of parsed strings come from the alphabet                     *)
(*   0-9  +  -  .  ,  _  space  and other letters (never e, E, i, n, f, a) *)
(* so that float()/int() accept exactly what the operators below accept.   *)
(* A string literal of the program that no code path parses is kept as a   *)
(* one-element sequence (Lit).                                             *)
(***************************************************************************)
EXTENDS Integers, Sequences, FiniteSets, TLC

\* ------------------------------------------------------------------ bounds

\* numeric coordinates a provider may report are 1..MaxCoord
MaxCoord == 2

\* resolutions the tracker starts while its history and its table hold fewer
\* than MaxHistory entries
MaxHistory == 1

\* readings of the wall clock are 0..MaxClock
MaxClock == 1

\* the files given to bulk_track_ips have up to MaxLines lines
MaxLines == 2

\* a caller of DatabaseManager writes rows while the table holds fewer than
\* MaxRows
MaxRows == 2

\* the license keys given to validate have up to MaxKeyLen pieces
MaxKeyLen == 3

\* get_location_multi_source calls a caller makes one after the other against
\* deterministic providers
MaxCalls == 3

\* the strings given to _validate_ip have 1..MaxParts dot-separated parts
MaxParts == 5

\* ------------------------------------------------------------------ values

Absent == [t |-> "absent", s |-> <<>>, n |-> 0, d |-> 1]

Null == [t |-> "null", s |-> <<>>, n |-> 0, d |-> 1]

Str(chars) == [t |-> "str", s |-> chars, n |-> 0, d |-> 1]

Lit(word) == Str(<<word>>)

IntV(k) == [t |-> "int", s |-> <<>>, n |-> k, d |-> 1]

Bool(b) == [t |-> "bool", s |-> <<>>, n |-> IF b THEN 1 ELSE 0, d |-> 1]

Abs(k) == IF k < 0 THEN -k ELSE k

RECURSIVE GCD(_, _)
GCD(a, b) == IF b = 0 THEN a ELSE GCD(b, a % b)

\* the float n/d, d > 0, in lowest terms
Flt(n, d) ==
    LET g == GCD(Abs(n), d)
    IN  [t |-> "float", s |-> <<>>, n |-> n \div g, d |-> d \div g]

\* float(value) for a value with isinstance(value, (int, float)); bool is an int
ToFloat(value) == Flt(value.n, value.d)

IsNumber(value) == value.t \in {"int", "float", "bool"}

\* ------------------------------------------------------------------ strings

Digits == <<"0", "1", "2", "3", "4", "5", "6", "7", "8", "9">>

IsDigit(c) == \E i \in 1..10 : Digits[i] = c

DigitVal(c) == (CHOOSE i \in 1..10 : Digits[i] = c) - 1

RECURSIVE Pow10(_)
Pow10(k) == IF k = 0 THEN 1 ELSE 10 * Pow10(k - 1)

\* str.strip(): leading and trailing whitespace removed
RECURSIVE LStrip(_)
LStrip(s) == IF s # <<>> /\ Head(s) = " " THEN LStrip(Tail(s)) ELSE s

RECURSIVE RStrip(_)
RStrip(s) ==
    IF s # <<>> /\ s[Len(s)] = " " THEN RStrip(SubSeq(s, 1, Len(s) - 1)) ELSE s

Strip(s) == RStrip(LStrip(s))

\* `sep in s`
HasChar(s, sep) == \E i \in 1..Len(s) : s[i] = sep

\* s.split(sep): the pieces between the separators, empty pieces kept
RECURSIVE SplitFrom(_, _, _, _)
SplitFrom(s, sep, i, piece) ==
    IF i > Len(s) THEN <<piece>>
    ELSE IF s[i] = sep THEN <<piece>> \o SplitFrom(s, sep, i + 1, <<>>)
    ELSE SplitFrom(s, sep, i + 1, Append(piece, s[i]))

Split(s, sep) == SplitFrom(s, sep, 1, <<>>)

\* a digit part of a numeric literal: digits, single underscores allowed
\* between two digits.  [ok, v, k]: the value and the number of digits.
RECURSIVE DigitPartFrom(_, _, _, _)
DigitPartFrom(s, i, v, k) ==
    IF i > Len(s) THEN [ok |-> TRUE, v |-> v, k |-> k]
    ELSE IF IsDigit(s[i]) THEN DigitPartFrom(s, i + 1, 10 * v + DigitVal(s[i]), k + 1)
    ELSE IF s[i] = "_" /\ i > 1 /\ i < Len(s) /\ IsDigit(s[i - 1]) /\ IsDigit(s[i + 1])
         THEN DigitPartFrom(s, i + 1, v, k)
    ELSE [ok |-> FALSE, v |-> 0, k |-> 0]

DigitPart(s) ==
    IF s = <<>> THEN [ok |-> FALSE, v |-> 0, k |-> 0] ELSE DigitPartFrom(s, 1, 0, 0)

HasSign(s) == s # <<>> /\ Head(s) \in {"+", "-"}

Unsigned(s) == IF HasSign(s) THEN Tail(s) ELSE s

SignOf(s) == IF s # <<>> /\ Head(s) = "-" THEN -1 ELSE 1

\* int(s): [ok, v]; ok = FALSE is ValueError
ParseInt(s) ==
    LET body == Unsigned(Strip(s))
        p    == DigitPart(body)
    IN  IF p.ok THEN [ok |-> TRUE, v |-> SignOf(Strip(s)) * p.v]
        ELSE [ok |-> FALSE, v |-> 0]

\* float(s): [ok, v]; ok = FALSE is ValueError
ParseFloat(s) ==
    LET sgn   == SignOf(Strip(s))
        body  == Unsigned(Strip(s))
        parts == Split(body, ".")
        bad   == [ok |-> FALSE, v |-> Absent]
    IN  IF Len(parts) = 1
        THEN LET p == DigitPart(body)
             IN  IF p.ok THEN [ok |-> TRUE, v |-> Flt(sgn * p.v, 1)] ELSE bad
        ELSE IF Len(parts) = 2
        THEN LET ip == DigitPart(parts[1])
                 fp == DigitPart(parts[2])
             IN  IF parts[1] = <<>> /\ parts[2] = <<>> THEN bad
                 ELSE IF parts[1] # <<>> /\ ~ip.ok THEN bad
                 ELSE IF parts[2] # <<>> /\ ~fp.ok THEN bad
                 ELSE [ok |-> TRUE,
                       v  |-> Flt(sgn * (ip.v * Pow10(fp.k) + fp.v), Pow10(fp.k))]
        ELSE bad

\* ------------------------------------------------------------------ dicts

Keys ==
    {"ip", "source", "city", "region", "country", "lat", "lon", "isp",
     "timezone", "accuracy", "sources"}

EmptyDict == [k \in Keys |-> Absent]

Has(dict, k) == dict[k] # Absent

\* the value the adapter and the orchestrator return: a dict, or None
Some(dict) == [ok |-> TRUE, rec |-> dict]

None == [ok |-> FALSE, rec |-> EmptyDict]

\* `if result:` -- None and the empty dict are falsy
Truthy(r) == r.ok /\ \E k \in Keys : Has(r.rec, k)

\* ------------------------------------------------------------------ registry

\* GeolocationAPI.APIS.keys(), in the order of the dict literal
APIS == <<"ipapi", "ipinfo", "geolocation">>

InRegistry(api_name) == \E i \in 1..Len(APIS) : APIS[i] = api_name

\* api_config['fields'].items(): <<normalized key, native field>>, in dict order
Fields(api_name) ==
    IF api_name = "ipapi" THEN
        << <<"ip", "ip">>, <<"city", "city">>, <<"region", "region">>,
           <<"country", "country_name">>, <<"lat", "latitude">>,
           <<"lon", "longitude">>, <<"isp", "org">>, <<"timezone", "timezone">> >>
    ELSE IF api_name = "ipinfo" THEN
        << <<"ip", "ip">>, <<"city", "city">>, <<"region", "region">>,
           <<"country", "country">>, <<"lat", "loc">>, <<"lon", "loc">>,
           <<"isp", "org">> >>
    ELSE
        << <<"ip", "query">>, <<"city", "city">>, <<"region", "regionName">>,
           <<"country", "country">>, <<"lat", "lat">>, <<"lon", "lon">>,
           <<"isp", "isp">>, <<"timezone", "timezone">> >>

\* every native field name some provider's table uses
NativeFields ==
    {"ip", "city", "region", "country_name", "latitude", "longitude", "org",
     "timezone", "country", "loc", "query", "regionName", "lat", "lon", "isp"}

\* ------------------------------------------------------------------ HTTP

\* The decoded JSON document: shape "dict" with its members in body; shape
\* "list" or "str" (a JSON array or string), elems the native field names f
\* with `f in data` true; shape "scalar" (number, true, false, null).
EmptyBody == [f \in NativeFields |-> Absent]

JsonDict(body) == [shape |-> "dict", body |-> body, elems |-> {}]

JsonOther(shape, elems) == [shape |-> shape, body |-> EmptyBody, elems |-> elems]

\* What one HTTP exchange does: kind "timeout" or "connerr" (the GET raises),
\* or kind "http" with the status, whether the body is valid JSON, and the
\* decoded document.
NetError(kind) ==
    [kind |-> kind, status |-> 0, json |-> FALSE, data |-> JsonDict(EmptyBody)]

Http(status, data) == [kind |-> "http", status |-> status, json |-> TRUE, data |-> data]

HttpGarbage(status) ==
    [kind |-> "http", status |-> status, json |-> FALSE, data |-> JsonDict(EmptyBody)]

\* lines 324-331: the GET and the JSON decoding.  requests.get returns any
\* status and response.json() raises on a malformed body; urllib's urlopen
\* raises HTTPError on an error status.  [exc, data]
Fetch(resp, requests_available) ==
    IF resp.kind # "http" THEN [exc |-> TRUE, data |-> resp.data]
    ELSE IF ~requests_available /\ resp.status >= 400 THEN [exc |-> TRUE, data |-> resp.data]
    ELSE IF ~resp.json THEN [exc |-> TRUE, data |-> resp.data]
    ELSE [exc |-> FALSE, data |-> resp.data]

\* ------------------------------------------------------------------ adapter

\* `api_field in data`; exc: TypeError, data is not a container
Contains(data, api_field) ==
    IF data.shape = "dict" THEN Has(data.body, api_field)
    ELSE api_field \in data.elems

Raised(result) == [exc |-> TRUE, rec |-> result]

\* MapFields with data[api_field] read without the test of line 337: a missing
\* field raises KeyError
RECURSIVE MapFieldsRequiresFields(_, _, _, _)
MapFieldsRequiresFields(fields, i, data, result) ==
    IF i > Len(fields) THEN [exc |-> FALSE, rec |-> result]
    ELSE
      LET field     == fields[i][1]
          api_field == fields[i][2]
      IN  IF data.shape # "dict" \/ ~Contains(data, api_field) THEN Raised(result)
          ELSE
            LET value == data.body[api_field]
            IN  IF field = "lat" /\ value.t = "str" /\ HasChar(value.s, ",")
                THEN LET parts == Split(value.s, ",")
                     IN  IF Len(parts) # 2 THEN Raised(result)
                         ELSE LET lat == ParseFloat(Strip(parts[1]))
                                  lon == ParseFloat(Strip(parts[2]))
                              IN  IF ~lat.ok \/ ~lon.ok THEN Raised(result)
                                  ELSE MapFieldsRequiresFields(fields, i + 1, data,
                                         [result EXCEPT !["lat"] = lat.v,
                                                        !["lon"] = lon.v])
                ELSE IF field = "lon" /\ Has(result, "lat")
                THEN MapFieldsRequiresFields(fields, i + 1, data, result)
                ELSE IF field \in {"lat", "lon"} /\ IsNumber(value)
                THEN MapFieldsRequiresFields(fields, i + 1, data,
                                [result EXCEPT ![field] = ToFloat(value)])
                ELSE MapFieldsRequiresFields(fields, i + 1, data,
                                [result EXCEPT ![field] = value])

\* MapFields without the branch of lines 344-345: the lon entry is mapped even
\* when lat is already in the result
RECURSIVE MapFieldsReprocessesLon(_, _, _, _)
MapFieldsReprocessesLon(fields, i, data, result) ==
    IF i > Len(fields) THEN [exc |-> FALSE, rec |-> result]
    ELSE
      LET field     == fields[i][1]
          api_field == fields[i][2]
      IN  IF data.shape = "scalar" THEN Raised(result)
          ELSE IF ~Contains(data, api_field)
          THEN MapFieldsReprocessesLon(fields, i + 1, data, result)
          ELSE IF data.shape # "dict" THEN Raised(result)
          ELSE
            LET value == data.body[api_field]
            IN  IF field = "lat" /\ value.t = "str" /\ HasChar(value.s, ",")
                THEN LET parts == Split(value.s, ",")
                     IN  IF Len(parts) # 2 THEN Raised(result)
                         ELSE LET lat == ParseFloat(Strip(parts[1]))
                                  lon == ParseFloat(Strip(parts[2]))
                              IN  IF ~lat.ok \/ ~lon.ok THEN Raised(result)
                                  ELSE MapFieldsReprocessesLon(fields, i + 1, data,
                                         [result EXCEPT !["lat"] = lat.v,
                                                        !["lon"] = lon.v])
                ELSE IF field \in {"lat", "lon"} /\ IsNumber(value)
                THEN MapFieldsReprocessesLon(fields, i + 1, data,
                                [result EXCEPT ![field] = ToFloat(value)])
                ELSE MapFieldsReprocessesLon(fields, i + 1, data,
                                [result EXCEPT ![field] = value])

\* lines 336-350: the loop over the mapping table, from entry i on
RECURSIVE MapFields(_, _, _, _)
MapFields(fields, i, data, result) ==
    IF i > Len(fields) THEN [exc |-> FALSE, rec |-> result]
    ELSE
      LET field     == fields[i][1]
          api_field == fields[i][2]
      IN  IF data.shape = "scalar" THEN Raised(result)
          ELSE IF ~Contains(data, api_field) THEN MapFields(fields, i + 1, data, result)
          ELSE IF data.shape # "dict" THEN Raised(result)
          ELSE
            LET value == data.body[api_field]
            IN  IF field = "lat" /\ value.t = "str" /\ HasChar(value.s, ",")
                THEN LET parts == Split(value.s, ",")
                     IN  IF Len(parts) # 2 THEN Raised(result)
                         ELSE LET lat == ParseFloat(Strip(parts[1]))
                                  lon == ParseFloat(Strip(parts[2]))
                              IN  IF ~lat.ok \/ ~lon.ok THEN Raised(result)
                                  ELSE MapFields(fields, i + 1, data,
                                         [result EXCEPT !["lat"] = lat.v,
                                                        !["lon"] = lon.v])
                ELSE IF field = "lon" /\ Has(result, "lat")
                THEN MapFields(fields, i + 1, data, result)
                ELSE IF field \in {"lat", "lon"} /\ IsNumber(value)
                THEN MapFields(fields, i + 1, data,
                                [result EXCEPT ![field] = ToFloat(value)])
                ELSE MapFields(fields, i + 1, data, [result EXCEPT ![field] = value])

\* api_config['url'], the text before and after {ip}
UrlTemplate(api_name) ==
    IF api_name = "ipapi" THEN <<"https://ipapi.co/", "/json/">>
    ELSE IF api_name = "ipinfo" THEN <<"https://ipinfo.io/", "/json">>
    ELSE <<"http://ip-api.com/json/", "">>

\* lines 317-321: the URL the GET goes to
request_url(ip_address, api_name) ==
    LET name == IF InRegistry(api_name) THEN api_name ELSE "ipapi"
    IN  <<UrlTemplate(name)[1]>> \o ip_address \o <<UrlTemplate(name)[2]>>

\* get_location_by_ip without the fallback of lines 317-318: a name that is not
\* in the registry fails
get_location_by_ipRejectsUnknown(ip_address, api_name, resp, requests_available) ==
    LET fetched == Fetch(resp, requests_available)
        result  == [EmptyDict EXCEPT !["ip"] = Str(ip_address),
                                     !["source"] = Lit(api_name)]
        mapped  == MapFields(Fields(api_name), 1, fetched.data, result)
    IN  IF ~InRegistry(api_name) \/ fetched.exc \/ mapped.exc
        THEN None ELSE Some(mapped.rec)

\* GeolocationAPI.get_location_by_ip(ip_address, api_name) when the HTTP
\* exchange does resp
get_location_by_ip(ip_address, api_name, resp, requests_available) ==
    LET name    == IF InRegistry(api_name) THEN api_name ELSE "ipapi"  \* line 317
        fetched == Fetch(resp, requests_available)
        result  == [EmptyDict EXCEPT !["ip"] = Str(ip_address),
                                     !["source"] = Lit(name)]
        mapped  == MapFields(Fields(name), 1, fetched.data, result)
    IN  IF fetched.exc \/ mapped.exc THEN None ELSE Some(mapped.rec)

\* ------------------------------------------------------------------ reconciliation

\* [r[key] for r in results if key in r]
RECURSIVE Collect(_, _)
Collect(results, key) ==
    IF results = <<>> THEN <<>>
    ELSE (IF Has(Head(results), key) THEN <<Head(results)[key]>> ELSE <<>>)
         \o Collect(Tail(results), key)

\* sum(values) raises TypeError unless every value is a number
Summable(values) == \A i \in 1..Len(values) : IsNumber(values[i])

RECURSIVE Sum(_)
Sum(values) ==
    IF values = <<>> THEN Flt(0, 1)
    ELSE LET rest == Sum(Tail(values))
             v    == Head(values)
         IN  Flt(v.n * rest.d + rest.n * v.d, v.d * rest.d)

\* Average with the total divided by the number of providers
AverageOverProviders(values) ==
    LET total == Sum(values) IN Flt(total.n, total.d * Len(APIS))

\* sum(values) / len(values)
Average(values) == LET total == Sum(values) IN Flt(total.n, total.d * Len(values))

\* what a function does: it returns val, or (exc) an exception leaves it
Returns(val) == [exc |-> FALSE, val |-> val]

Raises == [exc |-> TRUE, val |-> None]

\* TryAverage with sources counting the records that supplied a latitude
TryAverageCountsLats(results) ==
    LET lats == Collect(results, "lat")
        lons == Collect(results, "lon")
    IN  IF lats # <<>> /\ lons # <<>>
        THEN IF Summable(lats) /\ Summable(lons)
             THEN [exc |-> FALSE, returned |-> TRUE,
                   val |-> Some([results[1] EXCEPT !["lat"] = Average(lats),
                                                   !["lon"] = Average(lons),
                                                   !["accuracy"] = Lit("high"),
                                                   !["sources"] = IntV(Len(lats))])]
             ELSE [exc |-> TRUE, returned |-> FALSE, val |-> None]
        ELSE [exc |-> FALSE, returned |-> FALSE, val |-> None]

\* lines 375-388, the body of the try: it returns the averaged result
\* (returned), falls through, or raises the TypeError of sum() (exc)
TryAverage(results) ==
    LET lats == Collect(results, "lat")
        lons == Collect(results, "lon")
    IN  IF lats # <<>> /\ lons # <<>>
        THEN IF Summable(lats) /\ Summable(lons)
             THEN [exc |-> FALSE, returned |-> TRUE,
                   val |-> Some([results[1] EXCEPT !["lat"] = Average(lats),
                                                   !["lon"] = Average(lons),
                                                   !["accuracy"] = Lit("high"),
                                                   !["sources"] = IntV(Len(results))])]
             ELSE [exc |-> TRUE, returned |-> FALSE, val |-> None]
        ELSE [exc |-> FALSE, returned |-> FALSE, val |-> None]

\* FirstMedium without the assignment of line 394
FirstMediumNoSources(results) ==
    Some([results[1] EXCEPT !["accuracy"] = Lit("medium")])

\* lines 392-395: the first result, labelled medium
FirstMedium(results) ==
    Some([results[1] EXCEPT !["accuracy"] = Lit("medium"),
                            !["sources"] = IntV(Len(results))])

\* Reconcile without the test of line 373: a single record is averaged too
ReconcileAveragesSingle(results) ==
    IF results = <<>> THEN Returns(None)
    ELSE IF TryAverage(results).returned
    THEN Returns(TryAverage(results).val)
    ELSE Returns(FirstMedium(results))

\* Reconcile without the check of lines 369-370: results[0] raises IndexError
ReconcileNoEmptyCheck(results) ==
    IF results = <<>> THEN Raises
    ELSE IF Len(results) > 1 /\ TryAverage(results).returned
    THEN Returns(TryAverage(results).val)
    ELSE Returns([ok |-> TRUE,
                  rec |-> [results[1] EXCEPT !["accuracy"] = Lit("medium"),
                                             !["sources"] = IntV(Len(results))]])

\* lines 369-395: how get_location_multi_source ends for the collected
\* results; the bare except of lines 389-390 swallows what the try raises
Reconcile(results) ==
    IF results = <<>> THEN Returns(None)
    ELSE IF Len(results) > 1 /\ TryAverage(results).returned
    THEN Returns(TryAverage(results).val)
    ELSE Returns(FirstMedium(results))

\* ------------------------------------------------------------------ tracker helpers

\* AdvancedLocationTracker._validate_ip: False on any exception of int()
validate_ip(ip) ==
    LET parts == Split(ip, ".")
    IN  /\ Len(parts) = 4
        /\ \A i \in 1..Len(parts) :
              /\ ParseInt(parts[i]).ok
              /\ 0 <= ParseInt(parts[i]).v
              /\ ParseInt(parts[i]).v <= 255

\* _display_location_info raises when it formats a coordinate that is not a
\* number with :.4f (line 901); everything else it prints as is
DisplayRaises(location) ==
    /\ Has(location, "lat") /\ Has(location, "lon")
    /\ ~(IsNumber(location["lat"]) /\ IsNumber(location["lon"]))

\* result.get(key): None for a missing key
Get(dict, key) == IF Has(dict, key) THEN dict[key] ELSE Null

\* result.get(key, default)
GetOr(dict, key, default) == IF Has(dict, key) THEN dict[key] ELSE default

\* the decimal digits of a natural number
RECURSIVE NatText(_)
NatText(k) ==
    IF k < 10 THEN <<Digits[k + 1]>>
    ELSE NatText(k \div 10) \o <<Digits[(k % 10) + 1]>>

IntText(k) == IF k < 0 THEN <<"-">> \o NatText(-k) ELSE NatText(k)

\* the digits after the decimal point of r/d, at most k of them
RECURSIVE FractionText(_, _, _)
FractionText(r, d, k) ==
    IF r = 0 \/ k = 0 THEN <<>>
    ELSE <<Digits[((10 * r) \div d) + 1]>> \o FractionText((10 * r) % d, d, k - 1)

\* the text SQLite renders a REAL with: the whole part, a point, the fraction
\* ("1.0", "2.5"); 15 significant digits are kept as 15 fraction digits
FloatText(value) ==
    LET whole == Abs(value.n) \div value.d
        frac  == FractionText(Abs(value.n) % value.d, value.d, 15)
    IN  (IF value.n < 0 THEN <<"-">> ELSE <<>>) \o NatText(whole) \o <<".">>
        \o (IF frac = <<>> THEN <<"0">> ELSE frac)

\* a text SQLite takes for a number: a decimal numeral, blanks around it
\* allowed, no underscores
SqlNumeric(chars) == ParseFloat(chars).ok /\ ~HasChar(chars, "_")

\* a value bound to a column declared REAL (lines 514-515): numbers and
\* numeric text become REAL, anything else is stored as it is
RealAffinity(value) ==
    IF IsNumber(value) THEN ToFloat(value)
    ELSE IF value.t = "str" /\ SqlNumeric(value.s) THEN ParseFloat(value.s).v
    ELSE value

\* a value bound to a column declared TEXT (lines 512-521): numbers become
\* their text
TextAffinity(value) ==
    IF value.t \in {"int", "bool"} THEN Str(IntText(value.n))
    ELSE IF value.t = "float" THEN Str(FloatText(value))
    ELSE value

\* lines 554-570: the row save_tracking_result inserts, as table
\* tracking_history (lines 510-523) stores it
Row(target, result, target_type, timestamp) ==
    [target      |-> TextAffinity(Str(target)),
     target_type |-> Lit(target_type),
     latitude    |-> RealAffinity(Get(result, "lat")),
     longitude   |-> RealAffinity(Get(result, "lon")),
     city        |-> TextAffinity(Get(result, "city")),
     country     |-> TextAffinity(Get(result, "country")),
     isp         |-> TextAffinity(Get(result, "isp")),
     timestamp   |-> timestamp,
     source      |-> TextAffinity(GetOr(result, "source", Lit("unknown"))),
     accuracy    |-> TextAffinity(GetOr(result, "accuracy", Lit("unknown"))),
     notes       |-> result]

\* DatabaseManager.get_tracking_history(limit) on the table rows when the
\* query succeeds: the sequences SELECT ... ORDER BY timestamp DESC LIMIT may
\* deliver; rows with equal timestamps come in any order
get_tracking_history(rows, limit) ==
    LET m == IF limit < Len(rows) THEN limit ELSE Len(rows)
        picks == {f \in [1..m -> 1..Len(rows)] :
                    /\ \A i \in 1..m : \A j \in 1..m : i # j => f[i] # f[j]
                    /\ \A i \in 1..m : \A j \in 1..m :
                          i < j => rows[f[i]].timestamp >= rows[f[j]].timestamp
                    /\ \A i \in 1..m : \A k \in 1..Len(rows) :
                          (\A j \in 1..m : f[j] # k)
                             => rows[f[i]].timestamp >= rows[k].timestamp}
    IN  {[i \in 1..m |-> rows[f[i]]] : f \in picks}

\* ------------------------------------------------------------------ inputs

\* the queries: two well-formed addresses and one that fails validation
Query1 == <<"1", ".", "2", ".", "3", ".", "4">>

Query2 == <<"8", ".", "8", ".", "8", ".", "8">>

QueryBad == <<"2", "5", "6", ".", "1", ".", "1", ".", "1">>

\* the address a provider echoes in its own ip field
EchoIp == <<"9", ".", "9", ".", "9", ".", "9">>

\* the native field a provider's table gives for a normalized key
Native(api_name, field) ==
    LET fields == Fields(api_name)
    IN  IF \E i \in 1..Len(fields) : fields[i][1] = field
        THEN fields[CHOOSE i \in 1..Len(fields) : fields[i][1] = field][2]
        ELSE "none"

\* a provider's JSON object: with meta, every non-coordinate field of its table
\* (its ip field echoing EchoIp, the others provider-specific text); latv and
\* lonv the values of the native fields behind lat and lon
Body(api_name, meta, latv, lonv) ==
    [f \in NativeFields |->
        IF f = Native(api_name, "lat") THEN latv
        ELSE IF f = Native(api_name, "lon") THEN lonv
        ELSE IF ~meta THEN Absent
        ELSE IF f = Native(api_name, "ip") THEN Str(EchoIp)
        ELSE IF \E k \in {"city", "region", "country", "isp", "timezone"} :
                  f = Native(api_name, k)
             THEN Str(<<api_name, ":", f>>)
        ELSE Absent]

Coords == 1..MaxCoord

Num(c) == IntV(c)

\* the string "<a>,<b>"
Packed(a, b) == Str(<<Digits[a + 1], ",", Digits[b + 1]>>)

\* <<value of the native lat field, value of the native lon field>>: missing,
\* a number, text, the string "<a>,<b>".  ipinfo has one field behind both.
CoordValues(api_name) ==
    IF api_name = "ipinfo"
    THEN {<<v, v>> : v \in {Absent, Str(<<"x">>)} \cup {Num(c) : c \in Coords}
                           \cup {Packed(a, b) : a \in Coords, b \in Coords}}
    ELSE {<<Absent, Absent>>, <<Str(<<"x">>), Num(1)>>, <<Packed(1, 2), Absent>>,
          <<Absent, Str(<<"x">>)>>}
         \cup {<<Num(c), Absent>> : c \in Coords}
         \cup {<<Absent, Num(c)>> : c \in Coords}
         \cup {<<Num(c), Num(c + MaxCoord)>> : c \in Coords}

\* what a provider may answer in a resolution: a timeout, an error status with
\* a JSON object, or status 200 with a JSON object
RichResponses(api_name) ==
    {NetError("timeout"), Http(404, JsonDict(Body(api_name, FALSE, Absent, Absent)))}
    \cup {Http(200, JsonDict(Body(api_name, meta, cv[1], cv[2]))) :
            meta \in BOOLEAN, cv \in CoordValues(api_name)}

\* the answers the tracker's resolutions see
SmallResponses(api_name) ==
    {NetError("timeout"),
     Http(200, JsonDict(Body(api_name, TRUE,
                             IF api_name = "ipinfo" THEN Packed(1, 2) ELSE Num(1),
                             IF api_name = "ipinfo" THEN Absent ELSE Num(2))))}

\* ------------------------------------------------------------------ state

VARIABLES
    REQUESTS_AVAILABLE,  \* lines 33-37: whether `import requests` succeeded
    pc,                  \* "idle", "multi" (in the loop of line 363), "returned"
    caller,              \* the operation that called get_location_multi_source
    ip_address,          \* its query
    api_idx,             \* the position of the loop in APIS
    results,             \* line 361
    trace,               \* the adapter calls and the sleeps of this resolution
    location,            \* what get_location_multi_source returned
    retval,              \* what the last operation returned
    raised,              \* whether an exception escaped the last operation
    tracking_history,    \* AdvancedLocationTracker.tracking_history
    ip_history,          \* the rows of table ip_history (lines 526-535)
    bulk,                \* the bulk_track_ips call under way: its file, the
                         \* stripped lines, the loop position, the results, the
                         \* line each result came from, the history length before
    db,                  \* the rows of table tracking_history, in insertion order
    mocked,              \* deterministic providers: the answers they have given,
                         \* the queries resolved against them and the first
                         \* result of each
    license              \* the SimpleLicenseManager: license_key, is_valid, features

vars ==
    <<REQUESTS_AVAILABLE, pc, caller, ip_address, api_idx, results, trace,
      location, retval, raised, tracking_history, db, mocked, license,
      ip_history, bulk>>

CallEvent(api_name, ip, resp, ret) ==
    [ev |-> "call", api |-> api_name, url |-> request_url(ip, api_name),
     resp |-> resp, ret |-> ret]

SleepEvent ==
    [ev |-> "sleep", api |-> "", url |-> <<>>, resp |-> NetError("none"), ret |-> None]

\* the calls deterministic providers can receive: <<query, provider>>
MockedCalls == {Query1, Query2} \X {APIS[i] : i \in 1..Len(APIS)}

\* a deterministic provider has not answered this call yet
NoAnswer == NetError("unasked")

\* the query has not been resolved yet
NoResult == [set |-> FALSE, val |-> None]

\* a call of get_tracking_history and whether the query succeeded
HistoryEvent(ok) == [ev |-> "history", ok |-> ok]

\* a call of save_tracking_result and whether the row was stored
SaveEvent(stored) == [ev |-> "save", stored |-> stored]

\* no bulk_track_ips call is under way
NoBulk ==
    [phase |-> "off", lines |-> <<>>, ips |-> <<>>, i |-> 0, results |-> <<>>,
     from |-> <<>>, before |-> 0]

Init ==
    /\ REQUESTS_AVAILABLE \in BOOLEAN
    /\ pc = "idle"
    /\ caller = "none"
    /\ ip_address = <<>>
    /\ api_idx = 1
    /\ results = <<>>
    /\ trace = <<>>
    /\ location = None
    /\ retval = None
    /\ raised = FALSE
    /\ tracking_history = <<>>
    /\ db = <<>>
    /\ mocked = [answers |-> [p \in MockedCalls |-> NoAnswer],
                 queries |-> <<>>,
                 first   |-> [q \in {Query1, Query2} |-> NoResult]]
    /\ license = [license_key |-> <<>>, is_valid |-> FALSE, features |-> <<>>]
    /\ ip_history = <<>>
    /\ bulk = NoBulk

\* ------------------------------------------------------------------ get_location_multi_source

\* EnterMulti with results kept from the call before (a list shared between
\* calls instead of the local of line 361)
EnterMultiKeepsResults(who, ip) ==
    /\ pc' = "multi"
    /\ caller' = who
    /\ ip_address' = ip
    /\ api_idx' = 1
    /\ results' = results
    /\ trace' = <<>>
    /\ location' = None
    /\ retval' = None
    /\ raised' = FALSE

\* line 361: the call begins
EnterMulti(who, ip) ==
    /\ pc' = "multi"
    /\ caller' = who
    /\ ip_address' = ip
    /\ api_idx' = 1
    /\ results' = <<>>
    /\ trace' = <<>>
    /\ location' = None
    /\ retval' = None
    /\ raised' = FALSE

\* LoopStep with a failed call ending the loop
LoopStepAbortsOnFailure(resp) ==
    LET api_name == APIS[api_idx]
        result   == get_location_by_ip(ip_address, api_name, resp, REQUESTS_AVAILABLE)
    IN  /\ results' = IF Truthy(result) THEN Append(results, result.rec) ELSE results
        /\ trace' = trace \o <<CallEvent(api_name, ip_address, resp, result)>>
                          \o (IF Truthy(result) THEN <<SleepEvent>> ELSE <<>>)
        /\ api_idx' = IF Truthy(result) THEN api_idx + 1 ELSE Len(APIS) + 1

\* LoopStep without the test of line 365: a failed call's result is collected too
LoopStepCollectsAll(resp) ==
    LET api_name == APIS[api_idx]
        result   == get_location_by_ip(ip_address, api_name, resp, REQUESTS_AVAILABLE)
    IN  /\ results' = Append(results, result.rec)
        /\ trace' = trace \o <<CallEvent(api_name, ip_address, resp, result)>> \o <<SleepEvent>>
        /\ api_idx' = api_idx + 1

\* lines 363-367: one iteration of the loop, the provider answering resp
LoopStep(resp) ==
    LET api_name == APIS[api_idx]
        result   == get_location_by_ip(ip_address, api_name, resp, REQUESTS_AVAILABLE)
    IN  /\ results' = IF Truthy(result) THEN Append(results, result.rec) ELSE results
        /\ trace' = trace \o <<CallEvent(api_name, ip_address, resp, result)>>
                          \o (IF Truthy(result) THEN <<SleepEvent>> ELSE <<>>)
        /\ api_idx' = api_idx + 1

\* the loop of a resolution the tracker started
provider_call ==
    /\ pc = "multi"
    /\ caller \in {"track_ip", "get_own_location"}
    /\ api_idx <= Len(APIS)
    /\ \E resp \in SmallResponses(APIS[api_idx]) : LoopStep(resp)
    /\ UNCHANGED <<REQUESTS_AVAILABLE, ip_history, bulk, license, mocked, pc, caller, ip_address, location, retval,
                   raised, tracking_history, db>>

\* the loop of a direct call, over the wider set of answers
multi_source_call ==
    /\ pc = "multi"
    /\ caller = "direct"
    /\ api_idx <= Len(APIS)
    /\ \E resp \in RichResponses(APIS[api_idx]) : LoopStep(resp)
    /\ UNCHANGED <<REQUESTS_AVAILABLE, ip_history, bulk, license, mocked, pc, caller, ip_address, location, retval,
                   raised, tracking_history, db>>

\* lines 369-395: the loop is over, the function returns
multi_source_return ==
    /\ pc = "multi"
    /\ caller # "repeat"
    /\ api_idx > Len(APIS)
    /\ location' = Reconcile(results).val
    /\ raised' = Reconcile(results).exc
    /\ pc' = "returned"
    /\ UNCHANGED <<REQUESTS_AVAILABLE, ip_history, bulk, license, mocked, caller, ip_address, api_idx, results, trace,
                   retval, tracking_history, db>>

\* a caller that uses GeolocationAPI.get_location_multi_source directly
multi_source_begin ==
    /\ pc = "idle"
    /\ caller = "none"
    /\ EnterMulti("direct", Query1)
    /\ UNCHANGED <<REQUESTS_AVAILABLE, ip_history, bulk, license, mocked, tracking_history, db>>

\* ------------------------------------------------------------------ repeated resolutions

\* what a deterministic provider may answer: a timeout, an object without
\* coordinates, a complete object
MockedResponses(api_name) ==
    SmallResponses(api_name)
    \cup {Http(200, JsonDict(Body(api_name, TRUE, Absent, Absent)))}

\* a caller that resolves queries one after the other against deterministic
\* providers starts get_location_multi_source
repeat_begin ==
    /\ pc \in {"idle", "returned"}
    /\ caller \in {"none", "repeat"}
    /\ Len(mocked.queries) < MaxCalls
    /\ \E ip \in {Query1, Query2} :
          /\ EnterMulti("repeat", ip)
          /\ mocked' = [mocked EXCEPT !.queries = Append(@, ip)]
    /\ UNCHANGED <<REQUESTS_AVAILABLE, ip_history, bulk, license, tracking_history, db>>

\* the loop of such a call: a provider asked before for the same query gives
\* the answer it gave then
repeat_call ==
    /\ pc = "multi"
    /\ caller = "repeat"
    /\ api_idx <= Len(APIS)
    /\ \E resp \in MockedResponses(APIS[api_idx]) :
          /\ mocked.answers[<<ip_address, APIS[api_idx]>>] \in {NoAnswer, resp}
          /\ LoopStep(resp)
          /\ mocked' = [mocked EXCEPT !.answers[<<ip_address, APIS[api_idx]>>] = resp]
    /\ UNCHANGED <<REQUESTS_AVAILABLE, ip_history, bulk, license, pc, caller, ip_address, location, retval,
                   raised, tracking_history, db>>

\* lines 369-395 for such a call; the caller keeps the first result of a query
repeat_return ==
    /\ pc = "multi"
    /\ caller = "repeat"
    /\ api_idx > Len(APIS)
    /\ location' = Reconcile(results).val
    /\ raised' = Reconcile(results).exc
    /\ pc' = "returned"
    /\ mocked' = IF mocked.first[ip_address].set THEN mocked
                  ELSE [mocked EXCEPT !.first[ip_address] =
                                         [set |-> TRUE, val |-> Reconcile(results).val]]
    /\ UNCHANGED <<REQUESTS_AVAILABLE, ip_history, bulk, license, caller, ip_address, api_idx, results, trace,
                   retval, tracking_history, db>>

\* ------------------------------------------------------------------ get_location_by_ip

\* the names a single-provider caller passes, one of them not in the registry
ApiNames == {"ipapi", "ipinfo", "geolocation", "ipstack"}

\* the provider the request of line 325 goes to
Requested(api_name) == IF InRegistry(api_name) THEN api_name ELSE "ipapi"

\* texts with a comma a provider may put in the field behind lat:
\* "1.5,-2", " 1 , 2 ", "1,2,3", "x,1", "1,"
PackedTexts ==
    {Str(<<"1", ".", "5", ",", "-", "2">>),
     Str(<<" ", "1", " ", ",", " ", "2", " ">>),
     Str(<<"1", ",", "2", ",", "3">>),
     Str(<<"x", ",", "1">>),
     Str(<<"1", ",">>)}

\* the native fields of a provider's table
MappedFields(api_name) == {Fields(api_name)[i][2] : i \in 1..Len(Fields(api_name))}

\* a provider's complete JSON object with every subset of its fields missing
DriftBodies(api_name) ==
    {[f \in NativeFields |->
        IF f \in kept THEN Body(api_name, TRUE, Num(1), Num(2))[f] ELSE Absent] :
     kept \in SUBSET MappedFields(api_name)}

\* what the HTTP exchange of one adapter call may do
AdapterResponses(api_name) ==
    RichResponses(api_name)
    \cup {Http(200, JsonDict(body)) : body \in DriftBodies(api_name)}
    \cup {Http(429, JsonDict(Body(api_name, TRUE, Absent, Absent)))}
    \cup {Http(200, JsonDict(Body(api_name, FALSE, v, Num(1)))) : v \in PackedTexts}
    \cup {NetError("connerr"), HttpGarbage(200), HttpGarbage(500),
          Http(200, JsonOther("list", {})), Http(200, JsonOther("list", {"city"})),
          Http(200, JsonOther("str", {})), Http(200, JsonOther("scalar", {}))}

\* a caller that uses GeolocationAPI.get_location_by_ip directly
adapter_call ==
    /\ pc = "idle"
    /\ caller = "none"
    /\ \E ip \in {Query1, Query2}, api_name \in ApiNames :
         \E resp \in AdapterResponses(Requested(api_name)) :
            LET result == get_location_by_ip(ip, api_name, resp, REQUESTS_AVAILABLE)
            IN  /\ ip_address' = ip
                /\ trace' = <<CallEvent(api_name, ip, resp, result)>>
                /\ retval' = result
    /\ caller' = "adapter"
    /\ pc' = "returned"
    /\ UNCHANGED <<REQUESTS_AVAILABLE, ip_history, bulk, license, mocked, api_idx, results, location, raised,
                   tracking_history, db>>

\* ------------------------------------------------------------------ SimpleLicenseManager

\* line 54, the key as one piece of text
VALID_LICENSE_KEY == <<"xai-...">>

\* line 55
DEMO_MODE == FALSE

\* the pieces license keys are made of: a blank, the valid key, the demo
\* words, other text
KeyPieces == {" ", "xai-...", "DEMO", "TRACKER-DEMO", "x"}

\* the keys a user may enter
LicenseKeys == UNION {[1..n -> KeyPieces] : n \in 0..MaxKeyLen}

\* s.startswith(prefix)
StartsWith(s, prefix) ==
    Len(s) >= Len(prefix) /\ SubSeq(s, 1, Len(prefix)) = prefix

FullFeatures == <<"full_access", "all_methods", "real_time", "export", "api_access">>

DemoFeatures == <<"demo_mode", "basic_tracking">>

\* SimpleLicenseManager.has_feature
has_feature(feature) ==
    \/ \E i \in 1..Len(license.features) : license.features[i] = feature
    \/ \E i \in 1..Len(license.features) : license.features[i] = "full_access"

\* SimpleLicenseManager.validate
validate ==
    /\ pc = "idle"
    /\ caller \in {"none", "license"}
    /\ caller' = "license"
    /\ \E license_key \in LicenseKeys :
          LET key == Strip(license_key)
          IN  IF key = VALID_LICENSE_KEY
              THEN /\ license' = [license_key |-> key, is_valid |-> TRUE,
                                  features |-> FullFeatures]
                   /\ retval' = Bool(TRUE)
              ELSE IF DEMO_MODE /\ (key = <<"DEMO">> \/ StartsWith(key, <<"TRACKER-DEMO">>))
              THEN /\ license' = [license_key |-> key, is_valid |-> TRUE,
                                  features |-> DemoFeatures]
                   /\ retval' = Bool(TRUE)
              ELSE /\ license' = [license EXCEPT !.license_key = key,
                                                 !.is_valid = FALSE]
                   /\ retval' = Bool(FALSE)
    /\ UNCHANGED <<REQUESTS_AVAILABLE, ip_history, bulk, mocked, pc, ip_address, api_idx, results, trace,
                   location, raised, tracking_history, db>>

\* ------------------------------------------------------------------ _validate_ip

\* texts of one part of a query: "", 0, 7, 255, 256, 01, +1, -1, -0, " 1",
\* "1 ", 1_0, a, 1a
PartTexts ==
    {<<>>, <<"0">>, <<"7">>, <<"2", "5", "5">>, <<"2", "5", "6">>, <<"0", "1">>,
     <<"+", "1">>, <<"-", "1">>, <<"-", "0">>, <<" ", "1">>, <<"1", " ">>,
     <<"1", "_", "0">>, <<"a">>, <<"1", "a">>}

\* the parts that fill the other positions: 3, 256, +4
FillerTexts == {<<"3">>, <<"2", "5", "6">>, <<"+", "4">>}

\* '.'.join(parts)
RECURSIVE JoinDots(_)
JoinDots(parts) ==
    IF Len(parts) = 1 THEN parts[1]
    ELSE parts[1] \o <<".">> \o JoinDots(Tail(parts))

\* the strings a caller passes to _validate_ip
ValidateInputs ==
    {JoinDots(<<a, b, c, d>>) : a \in PartTexts, b \in PartTexts,
                                 c \in FillerTexts, d \in FillerTexts}
    \cup UNION {{JoinDots(parts) : parts \in [1..n -> FillerTexts]} : n \in 1..MaxParts}

\* a caller that uses AdvancedLocationTracker._validate_ip directly
validate_call ==
    /\ pc = "idle"
    /\ caller = "none"
    /\ \E ip \in ValidateInputs :
          /\ ip_address' = ip
          /\ retval' = Bool(validate_ip(ip))
    /\ caller' = "validate"
    /\ pc' = "returned"
    /\ UNCHANGED <<REQUESTS_AVAILABLE, ip_history, bulk, license, mocked, api_idx, results, trace, location, raised,
                   tracking_history, db>>

\* ------------------------------------------------------------------ track_ip

\* save_tracking_result with the sqlite3 error leaving the method
save_tracking_resultUncaught(rows, target, result, target_type, timestamp, stored) ==
    [exc  |-> ~stored,
     rows |-> IF stored THEN Append(rows, Row(target, result, target_type, timestamp))
              ELSE rows]

\* DatabaseManager.save_tracking_result on the table rows: the insert, or
\* (stored = FALSE) an sqlite3 error, which the except of line 576 catches.
\* [exc, rows]: whether an exception leaves the method, and the table after it
save_tracking_result(rows, target, result, target_type, timestamp, stored) ==
    [exc  |-> FALSE,
     rows |-> IF stored THEN Append(rows, Row(target, result, target_type, timestamp))
              ELSE rows]

\* lines 710-718: validation, then the resolution starts
track_ip_begin ==
    /\ pc = "idle"
    /\ Len(tracking_history) < MaxHistory
    /\ Len(db) < MaxHistory
    /\ \E ip \in {Query1, Query2, QueryBad} :
          IF validate_ip(ip)
          THEN EnterMulti("track_ip", ip)
          ELSE /\ caller' = "track_ip"
               /\ ip_address' = ip
               /\ retval' = None
               /\ raised' = FALSE
               /\ trace' = <<>>
               /\ results' = <<>>
               /\ location' = None
               /\ UNCHANGED <<pc, api_idx>>
    /\ UNCHANGED <<REQUESTS_AVAILABLE, ip_history, bulk, license, mocked, tracking_history, db>>

\* lines 720-727: the resolution is back
track_ip_end ==
    /\ pc = "returned"
    /\ caller = "track_ip"
    /\ pc' = "idle"
    /\ IF raised \/ ~Truthy(location)
       THEN /\ retval' = None
            /\ UNCHANGED <<raised, tracking_history, db, trace>>
       ELSE IF DisplayRaises(location.rec)
       THEN /\ raised' = TRUE
            /\ retval' = None
            /\ UNCHANGED <<tracking_history, db, trace>>
       ELSE \E stored \in BOOLEAN, timestamp \in 0..MaxClock :
              LET saved == save_tracking_result(db, ip_address, location.rec, "ip",
                                                timestamp, stored)
              IN  /\ db' = saved.rows
                  /\ trace' = Append(trace, SaveEvent(stored))
                  /\ IF saved.exc
                     THEN /\ raised' = TRUE
                          /\ retval' = None
                          /\ UNCHANGED tracking_history
                     ELSE /\ tracking_history' = Append(tracking_history, location.rec)
                          /\ retval' = location
                          /\ UNCHANGED raised
    /\ UNCHANGED <<REQUESTS_AVAILABLE, ip_history, bulk, license, mocked, caller, ip_address, api_idx, results, location>>

\* ------------------------------------------------------------------ DatabaseManager

\* answers of ipinfo whose records reach the table: the complete object, one
\* whose loc is a numeral without a comma, and one with a number for the city
StoreResponses ==
    {Http(200, JsonDict(Body("ipinfo", TRUE, Packed(1, 2), Absent))),
     Http(200, JsonDict(Body("ipinfo", TRUE, Str(<<"1", "2">>), Absent))),
     Http(200, JsonDict([Body("ipinfo", FALSE, Absent, Absent)
                            EXCEPT !["city"] = IntV(5)]))}

\* the results get_location_multi_source returns when only ipinfo answers
StoreResults ==
    {Reconcile(<<get_location_by_ip(Query1, "ipinfo", resp, TRUE).rec>>).val.rec :
        resp \in StoreResponses}

\* a caller that uses DatabaseManager.save_tracking_result directly
save_tracking_result_call ==
    /\ pc = "idle"
    /\ caller \in {"none", "database"}
    /\ Len(db) < MaxRows
    /\ \E target \in {Query1, Query2}, result \in StoreResults,
          timestamp \in 0..MaxClock, stored \in BOOLEAN :
          /\ db' = save_tracking_result(db, target, result, "ip", timestamp, stored).rows
          /\ ip_address' = target
          /\ location' = Some(result)
          /\ trace' = <<SaveEvent(stored)>>
          /\ retval' = Bool(stored)
    /\ caller' = "database"
    /\ UNCHANGED <<REQUESTS_AVAILABLE, ip_history, bulk, license, mocked, pc, api_idx, results, raised,
                   tracking_history>>

\* a caller that uses DatabaseManager.get_tracking_history(limit=1) directly;
\* an sqlite3 error makes it return [] (lines 597-599)
get_tracking_history_call ==
    /\ pc = "idle"
    /\ caller = "database"
    /\ \E ok \in BOOLEAN :
          /\ retval' \in (IF ok THEN get_tracking_history(db, 1) ELSE {<<>>})
          /\ trace' = <<trace[1], HistoryEvent(ok)>>
    /\ UNCHANGED <<REQUESTS_AVAILABLE, ip_history, bulk, license, mocked, pc, caller, ip_address, api_idx,
                   results, location, raised, tracking_history, db>>

\* ------------------------------------------------------------------ get_own_location

\* the string get_public_ip returns when no service answers
Unknown == <<"Unknown">>

\* what one address service does: the GET raises (exc), or it delivers text
ServiceAnswers ==
    {[exc |-> TRUE, text |-> <<>>],
     [exc |-> FALSE, text |-> <<>>],
     [exc |-> FALSE, text |-> <<"x">>],
     [exc |-> FALSE, text |-> Query1 \o <<" ">>],
     [exc |-> FALSE, text |-> QueryBad]}

\* the number of entries of `services`, lines 162-167
NumServices == 4

\* NetworkInfo.get_public_ip, lines 169-185, from service i on
RECURSIVE PublicIpFrom(_, _)
PublicIpFrom(answers, i) ==
    IF i > NumServices THEN Unknown
    ELSE IF answers[i].exc THEN PublicIpFrom(answers, i + 1)
    ELSE LET ip == Strip(answers[i].text)
         IN  IF ip # <<>> /\ Len(Split(ip, ".")) = 4 THEN ip
             ELSE PublicIpFrom(answers, i + 1)

get_public_ip(answers) == PublicIpFrom(answers, 1)

\* what get_public_ip returns, over everything the services may do
PublicIps == {get_public_ip(answers) : answers \in [1..NumServices -> ServiceAnswers]}

\* lines 687-698: the public address, then the resolution starts
get_own_location_begin ==
    /\ pc = "idle"
    /\ Len(tracking_history) < MaxHistory
    /\ Len(db) < MaxHistory
    /\ \E public_ip \in PublicIps :
          IF public_ip = Unknown
          THEN /\ caller' = "get_own_location"
               /\ ip_address' = public_ip
               /\ retval' = None
               /\ raised' = FALSE
               /\ trace' = <<>>
               /\ results' = <<>>
               /\ location' = None
               /\ UNCHANGED <<pc, api_idx>>
          ELSE EnterMulti("get_own_location", public_ip)
    /\ UNCHANGED <<REQUESTS_AVAILABLE, ip_history, bulk, license, mocked, tracking_history, db>>

\* lines 700-706: the resolution is back
get_own_location_end ==
    /\ pc = "returned"
    /\ caller = "get_own_location"
    /\ pc' = "idle"
    /\ IF raised \/ ~Truthy(location)
       THEN /\ retval' = None
            /\ UNCHANGED <<raised, db, trace>>
       ELSE IF DisplayRaises(location.rec)
       THEN /\ raised' = TRUE
            /\ retval' = None
            /\ UNCHANGED <<db, trace>>
       ELSE \E stored \in BOOLEAN, timestamp \in 0..MaxClock :
              LET saved == save_tracking_result(db, ip_address, location.rec, "self_ip",
                                                timestamp, stored)
              IN  /\ db' = saved.rows
                  /\ trace' = Append(trace, SaveEvent(stored))
                  /\ IF saved.exc
                     THEN raised' = TRUE /\ retval' = None
                     ELSE retval' = location /\ UNCHANGED raised
    /\ UNCHANGED <<REQUESTS_AVAILABLE, ip_history, bulk, license, mocked, caller, ip_address, api_idx, results, location,
                   tracking_history>>

\* ------------------------------------------------------------------ bulk_track_ips

\* the lines of a file, without their line ends: an address with blanks
\* around it, a line that fails validation and a blank line
LineTexts == {<<" ">> \o Query2 \o <<" ">>, QueryBad, <<" ">>}

\* the path given: no file there, a file that cannot be read as text (open or
\* the decoding raises), or a file of up to MaxLines lines
Files ==
    {[exists |-> FALSE, readable |-> FALSE, lines |-> <<>>],
     [exists |-> TRUE, readable |-> FALSE, lines |-> <<>>]}
    \cup {[exists |-> TRUE, readable |-> TRUE, lines |-> lines] :
            lines \in UNION {[1..n -> LineTexts] : n \in 0..MaxLines}}

\* line 765: [line.strip() for line in f if line.strip()]
RECURSIVE StrippedLines(_)
StrippedLines(lines) ==
    IF lines = <<>> THEN <<>>
    ELSE (IF Strip(Head(lines)) = <<>> THEN <<>> ELSE <<Strip(Head(lines))>>)
         \o StrippedLines(Tail(lines))

\* lines 758-773: the file is read; no file, an unreadable file and a file
\* without addresses end the call with []
bulk_track_ips_begin ==
    /\ pc = "idle"
    /\ bulk.phase = "off"
    /\ \E file \in Files :
          LET ips == IF file.exists /\ file.readable
                     THEN StrippedLines(file.lines) ELSE <<>>
          IN  /\ bulk' = [phase   |-> IF ips = <<>> THEN "done" ELSE "loop",
                          lines   |-> file.lines,
                          ips     |-> ips,
                          i       |-> 1,
                          results |-> <<>>,
                          from    |-> <<>>,
                          before  |-> Len(tracking_history)]
              /\ retval' = IF ips = <<>> THEN <<>> ELSE None
    /\ caller' = "bulk_track_ips"
    /\ trace' = <<>>
    /\ raised' = FALSE
    /\ UNCHANGED <<REQUESTS_AVAILABLE, ip_history, license, mocked, pc, ip_address,
                   api_idx, results, location, tracking_history, db>>

\* lines 774-777 and 780-781: the next address is validated; track_ip is called
\* for a valid one (and validates it again, line 710), an invalid one is
\* skipped with a warning
bulk_track_ips_line ==
    /\ pc = "idle"
    /\ bulk.phase = "loop"
    /\ bulk.i <= Len(bulk.ips)
    /\ IF validate_ip(bulk.ips[bulk.i])
       THEN /\ EnterMulti("track_ip", bulk.ips[bulk.i])
            /\ bulk' = [bulk EXCEPT !.phase = "called"]
       ELSE /\ bulk' = [bulk EXCEPT !.i = @ + 1]
            /\ UNCHANGED <<pc, caller, ip_address, api_idx, results, trace, location,
                           retval, raised>>
    /\ UNCHANGED <<REQUESTS_AVAILABLE, ip_history, license, mocked, tracking_history, db>>

\* bulk_track_ips_collect keeping what track_ip returned even when it is None
bulk_track_ips_collectKeepsNone ==
    /\ pc = "idle"
    /\ bulk.phase = "called"
    /\ caller = "track_ip"
    /\ IF raised
       THEN /\ bulk' = [bulk EXCEPT !.phase = "done", !.results = <<>>, !.from = <<>>]
            /\ retval' = <<>>
            /\ raised' = FALSE
            /\ caller' = "bulk_track_ips"
       ELSE /\ bulk' = [bulk EXCEPT !.phase = "loop",
                                    !.i = @ + 1,
                                    !.results = Append(@, retval.rec),
                                    !.from = Append(@, bulk.i)]
            /\ UNCHANGED <<retval, raised, caller>>
    /\ UNCHANGED <<REQUESTS_AVAILABLE, ip_history, license, mocked, pc, ip_address,
                   api_idx, results, trace, location, tracking_history, db>>

\* lines 777-779 and 786-788: track_ip is back; a result that is not None is
\* appended and the loop sleeps a second; an exception out of track_ip ends
\* the call with []
bulk_track_ips_collect ==
    /\ pc = "idle"
    /\ bulk.phase = "called"
    /\ caller = "track_ip"
    /\ IF raised
       THEN /\ bulk' = [bulk EXCEPT !.phase = "done", !.results = <<>>, !.from = <<>>]
            /\ retval' = <<>>
            /\ raised' = FALSE
            /\ caller' = "bulk_track_ips"
       ELSE /\ bulk' = IF Truthy(retval)
                       THEN [bulk EXCEPT !.phase = "loop",
                                         !.i = @ + 1,
                                         !.results = Append(@, retval.rec),
                                         !.from = Append(@, bulk.i)]
                       ELSE [bulk EXCEPT !.phase = "loop", !.i = @ + 1]
            /\ UNCHANGED <<retval, raised, caller>>
    /\ UNCHANGED <<REQUESTS_AVAILABLE, ip_history, license, mocked, pc, ip_address,
                   api_idx, results, trace, location, tracking_history, db>>

\* lines 783-784: the loop is over, the results are returned
bulk_track_ips_return ==
    /\ pc = "idle"
    /\ bulk.phase = "loop"
    /\ bulk.i > Len(bulk.ips)
    /\ bulk' = [bulk EXCEPT !.phase = "done"]
    /\ retval' = bulk.results
    /\ caller' = "bulk_track_ips"
    /\ UNCHANGED <<REQUESTS_AVAILABLE, ip_history, license, mocked, pc, ip_address,
                   api_idx, results, trace, location, raised, tracking_history, db>>

\* ------------------------------------------------------------------ clear_history

\* str.lower() on the answers given at the prompt
Lower(chars) == [i \in 1..Len(chars) |-> IF chars[i] = "Y" THEN "y" ELSE chars[i]]

\* what the user types at the prompt of line 1333
ConfirmTexts == {<<"y">>, <<"Y">>, <<"n">>, <<"y", "e", "s">>}

\* a call of the application's clear_history: the answer typed, whether the
\* DELETE statements were committed, and how many entries the table and the
\* in-memory history held before
ClearEvent(answer, deleted, rows, held) ==
    [ev |-> "clear", answer |-> answer, deleted |-> deleted, rows |-> rows,
     held |-> held]

\* lines 601-618, DatabaseManager.clear_history: both DELETE statements and
\* the commit, or an sqlite3 error before the commit, which leaves the tables
\* as they were and makes the method return False
DatabaseManager_clear_history(rows, ips, deleted) ==
    IF deleted
    THEN [ret |-> TRUE, rows |-> <<>>, ips |-> <<>>]
    ELSE [ret |-> FALSE, rows |-> rows, ips |-> ips]

\* the application's clear_history emptying the in-memory history whatever
\* DatabaseManager.clear_history returned
clear_historyIgnoresFailure ==
    /\ pc = "idle"
    /\ \E answer \in ConfirmTexts, deleted \in BOOLEAN :
          LET cleared == DatabaseManager_clear_history(db, ip_history, deleted)
          IN  IF Lower(answer) = <<"y">>
              THEN /\ db' = cleared.rows
                   /\ ip_history' = cleared.ips
                   /\ tracking_history' = <<>>
                   /\ trace' = <<ClearEvent(answer, cleared.ret, Len(db),
                                            Len(tracking_history))>>
              ELSE /\ trace' = <<ClearEvent(answer, FALSE, Len(db),
                                            Len(tracking_history))>>
                   /\ UNCHANGED <<db, ip_history, tracking_history>>
    /\ caller' = "clear_history"
    /\ retval' = None
    /\ raised' = FALSE
    /\ ip_address' = <<>>
    /\ api_idx' = 1
    /\ results' = <<>>
    /\ location' = None
    /\ UNCHANGED <<REQUESTS_AVAILABLE, bulk, license, mocked, pc>>

\* lines 1331-1338: the menu entry that clears the history; nothing is left
\* of the locals of the call before
clear_history ==
    /\ pc = "idle"
    /\ \E answer \in ConfirmTexts, deleted \in BOOLEAN :
          LET cleared == DatabaseManager_clear_history(db, ip_history, deleted)
          IN  IF Lower(answer) = <<"y">>
              THEN /\ db' = cleared.rows
                   /\ ip_history' = cleared.ips
                   /\ tracking_history' = IF cleared.ret THEN <<>> ELSE tracking_history
                   /\ trace' = <<ClearEvent(answer, cleared.ret, Len(db),
                                            Len(tracking_history))>>
              ELSE /\ trace' = <<ClearEvent(answer, FALSE, Len(db),
                                            Len(tracking_history))>>
                   /\ UNCHANGED <<db, ip_history, tracking_history>>
    /\ caller' = "clear_history"
    /\ retval' = None
    /\ raised' = FALSE
    /\ ip_address' = <<>>
    /\ api_idx' = 1
    /\ results' = <<>>
    /\ location' = None
    /\ UNCHANGED <<REQUESTS_AVAILABLE, bulk, license, mocked, pc>>

\* ------------------------------------------------------------------ specifications

Next ==
    \/ track_ip_begin
    \/ get_own_location_begin
    \/ provider_call
    \/ multi_source_return
    \/ track_ip_end
    \/ get_own_location_end

Spec == Init /\ [][Next]_vars

NextClear ==
    \/ track_ip_begin
    \/ provider_call
    \/ multi_source_return
    \/ track_ip_end
    \/ clear_history

SpecClear == Init /\ [][NextClear]_vars

NextMulti ==
    \/ multi_source_begin
    \/ multi_source_call
    \/ multi_source_return

SpecMulti == Init /\ [][NextMulti]_vars

NextAdapter == adapter_call

NextRepeat ==
    \/ repeat_begin
    \/ repeat_call
    \/ repeat_return

SpecRepeat == Init /\ [][NextRepeat]_vars

NextValidate == validate_call

NextLicense == validate

NextBulk ==
    \/ bulk_track_ips_begin
    \/ bulk_track_ips_line
    \/ provider_call
    \/ multi_source_return
    \/ track_ip_end
    \/ bulk_track_ips_collect
    \/ bulk_track_ips_return

SpecBulk == Init /\ [][NextBulk]_vars

NextDatabase ==
    \/ save_tracking_result_call
    \/ get_tracking_history_call

SpecDatabase == Init /\ [][NextDatabase]_vars

SpecLicense == Init /\ [][NextLicense]_vars

SpecValidate == Init /\ [][NextValidate]_vars

SpecAdapter == Init /\ [][NextAdapter]_vars

\* ------------------------------------------------------------------ claims

\* the adapter calls of the resolution, in order
Calls == SelectSeq(trace, LAMBDA e : e.ev = "call")

\* the records of the calls that succeeded, in call order
RECURSIVE RecordsOf(_)
RecordsOf(calls) ==
    IF calls = <<>> THEN <<>>
    ELSE (IF Head(calls).ret.ok THEN <<Head(calls).ret.rec>> ELSE <<>>)
         \o RecordsOf(Tail(calls))

SuccessRecords == RecordsOf(Calls)

Failed(i) == ~Calls[i].ret.ok

\* get_location_multi_source has returned
Resolved == pc = "returned" /\ caller = "direct"

HasBoth(rec) == Has(rec, "lat") /\ Has(rec, "lon")

AllNumbers(values) == \A i \in 1..Len(values) : IsNumber(values[i])

RECURSIVE ProductOfDens(_)
ProductOfDens(values) ==
    IF values = <<>> THEN 1 ELSE Head(values).d * ProductOfDens(Tail(values))

\* the sum of the values n/d, as a numerator over the denominator D
RECURSIVE NumeratorOver(_, _)
NumeratorOver(values, D) ==
    IF values = <<>> THEN 0
    ELSE Head(values).n * (D \div Head(values).d) + NumeratorOver(Tail(values), D)

\* v is the arithmetic mean of the numbers values
IsMeanOf(v, values) ==
    /\ v.t = "float"
    /\ v.n * ProductOfDens(values) * Len(values)
         = NumeratorOver(values, ProductOfDens(values)) * v.d

\* the first record labelled medium, sources the number of records
IsFirstMedium(val, records) ==
    /\ val.ok
    /\ val.rec["accuracy"] = Lit("medium")
    /\ val.rec["sources"] = IntV(Len(records))
    /\ \A k \in Keys \ {"accuracy", "sources"} : val.rec[k] = records[1][k]

\* C1 (as claimed): every result of get_location_multi_source has lat and lon
\* both present or both absent.
C1_CoordinatesPaired ==
    (Resolved /\ location.ok) => (Has(location.rec, "lat") <=> Has(location.rec, "lon"))

\* C2: whatever subset of the providers fails, get_location_multi_source
\* returns what reconciliation produces from the records of the successful
\* calls alone, in call order, and no exception escapes it.
C2_FailureIsolation ==
    Resolved => (~raised /\ location = Reconcile(SuccessRecords).val)

\* C2's case: the second provider failed, the first and the third succeeded
C2_Witness ==
    /\ Resolved
    /\ Len(Calls) = 3
    /\ ~Failed(1) /\ Failed(2) /\ ~Failed(3)
    /\ location.ok
    /\ location.rec["sources"] = IntV(2)

\* C3: when every provider fails, get_location_multi_source returns None
\* without raising, and track_ip then returns None, writes no row and appends
\* nothing to the in-memory history.
C3_ZeroSuccess ==
    [][(pc = "returned" /\ caller = "track_ip" /\ SuccessRecords = <<>>)
         => /\ location = None
            /\ ~raised
            /\ retval' = None
            /\ ~raised'
            /\ tracking_history' = tracking_history
            /\ db' = db]_vars

\* C3's case: track_ip is over after all three providers failed
C3_Witness ==
    /\ pc = "idle"
    /\ caller = "track_ip"
    /\ Len(Calls) = 3
    /\ SuccessRecords = <<>>
    /\ retval = None
    /\ tracking_history = <<>>
    /\ db = <<>>

\* the result is the first record with the means of the coordinates present,
\* labelled high
IsAveraged(val, records) ==
    /\ val.ok
    /\ IsMeanOf(val.rec["lat"], Collect(records, "lat"))
    /\ IsMeanOf(val.rec["lon"], Collect(records, "lon"))
    /\ val.rec["accuracy"] = Lit("high")
    /\ val.rec["sources"] = IntV(Len(records))
    /\ \A k \in Keys \ {"lat", "lon", "accuracy", "sources"} :
          val.rec[k] = records[1][k]

\* C4 (as claimed): two or more successful records, at least one with lat and
\* at least one with lon: lat and lon are the means of the values present, the
\* other fields those of the first record, accuracy high, sources the count.
C4_AveragedWhenCoordinatesPresent ==
    (/\ Resolved
     /\ Len(SuccessRecords) >= 2
     /\ Collect(SuccessRecords, "lat") # <<>>
     /\ Collect(SuccessRecords, "lon") # <<>>)
    => IsAveraged(location, SuccessRecords)

\* C4 (amended): the same, when every lat and lon value present is a number.
C4_AveragedWhenCoordinatesNumeric ==
    (/\ Resolved
     /\ Len(SuccessRecords) >= 2
     /\ Collect(SuccessRecords, "lat") # <<>>
     /\ Collect(SuccessRecords, "lon") # <<>>
     /\ AllNumbers(Collect(SuccessRecords, "lat"))
     /\ AllNumbers(Collect(SuccessRecords, "lon")))
    => IsAveraged(location, SuccessRecords)

\* C4's case: three records supply lat, fewer supply lon, and the mean of the
\* latitudes is not a whole number
C4_Witness ==
    /\ Resolved
    /\ Len(Collect(SuccessRecords, "lat")) = 3
    /\ Len(Collect(SuccessRecords, "lon")) = 1
    /\ location.ok
    /\ location.rec["accuracy"] = Lit("high")
    /\ location.rec["lat"].d = 3
    /\ Has(location.rec, "city")

\* C5: when exactly one provider succeeds, the result is its record with all
\* fields unchanged, plus accuracy medium and sources 1.
C5_SingleRecord ==
    (Resolved /\ Len(SuccessRecords) = 1)
    => location = Some([SuccessRecords[1] EXCEPT !["accuracy"] = Lit("medium"),
                                                 !["sources"] = IntV(1)])

\* C5's case: only the third provider succeeded, with a record that has text
\* fields and a coordinate
C5_Witness ==
    /\ Resolved
    /\ Len(Calls) = 3
    /\ Failed(1) /\ Failed(2) /\ ~Failed(3)
    /\ location.ok
    /\ Has(location.rec, "city")
    /\ Has(location.rec, "lat")
    /\ location.rec["source"] = Lit("geolocation")

\* C6 (as claimed): two or more successful records none of which carries both
\* lat and lon: the result is the first record, accuracy medium, sources the
\* number of records.
C6_FallbackWithoutPairedRecord ==
    (/\ Resolved
     /\ Len(SuccessRecords) >= 2
     /\ \A i \in 1..Len(SuccessRecords) : ~HasBoth(SuccessRecords[i]))
    => IsFirstMedium(location, SuccessRecords)

\* C7 (as claimed): the first record carries no coordinates and exactly one
\* other record carries both: the result is the first record, accuracy medium,
\* sources the number of records.
C7_FallbackWithOneCoordinateSource ==
    (/\ Resolved
     /\ Len(SuccessRecords) >= 2
     /\ ~Has(SuccessRecords[1], "lat")
     /\ ~Has(SuccessRecords[1], "lon")
     /\ Cardinality({i \in 2..Len(SuccessRecords) : HasBoth(SuccessRecords[i])}) = 1)
    => IsFirstMedium(location, SuccessRecords)

\* C8: in every result that is not None, sources is the number of providers
\* whose adapter call succeeded and accuracy is high or medium.
C8_SourcesAndAccuracy ==
    (Resolved /\ location.ok)
    => /\ location.rec["sources"]
            = IntV(Cardinality({i \in 1..Len(Calls) : ~Failed(i)}))
       /\ location.rec["accuracy"] \in {Lit("high"), Lit("medium")}

\* C8's case: an averaged result of three records of which one has no latitude
C8_Witness ==
    /\ Resolved
    /\ location.ok
    /\ location.rec["accuracy"] = Lit("high")
    /\ Len(SuccessRecords) = 3
    /\ Len(Collect(SuccessRecords, "lat")) = 2

\* get_location_by_ip has returned a record
Adapted == pc = "returned" /\ caller = "adapter" /\ retval.ok

\* C9 (as claimed): the record the adapter returns has ip equal to the query
\* and source equal to the provider used, whatever the body echoes.
C9_StampedIpAndSource ==
    Adapted => /\ retval.rec["ip"] = Str(ip_address)
               /\ retval.rec["source"] = Lit(Requested(trace[1].api))

\* C10 (as claimed): for ipapi and geolocation, a body with numbers in both
\* native coordinate fields yields lat and lon, each the float of its field.
C10_SeparateCoordinateFields ==
    (/\ Adapted
     /\ Requested(trace[1].api) \in {"ipapi", "geolocation"}
     /\ trace[1].resp.data.shape = "dict"
     /\ IsNumber(trace[1].resp.data.body[Native(Requested(trace[1].api), "lat")])
     /\ IsNumber(trace[1].resp.data.body[Native(Requested(trace[1].api), "lon")]))
    => /\ retval.rec["lat"]
            = ToFloat(trace[1].resp.data.body[Native(Requested(trace[1].api), "lat")])
       /\ retval.rec["lon"]
            = ToFloat(trace[1].resp.data.body[Native(Requested(trace[1].api), "lon")])

\* get_location_by_ip has returned, its HTTP exchange having delivered a JSON
\* object with status 200
Exchange == trace[1].resp

AdapterGotObject ==
    /\ pc = "returned" /\ caller = "adapter"
    /\ Exchange.kind = "http" /\ Exchange.status = 200 /\ Exchange.json
    /\ Exchange.data.shape = "dict"

\* value is a string "<a>,<b>" with a and b numerals float() accepts
IsPackedPair(value) ==
    /\ value.t = "str"
    /\ Len(Split(value.s, ",")) = 2
    /\ ParseFloat(Strip(Split(value.s, ",")[1])).ok
    /\ ParseFloat(Strip(Split(value.s, ",")[2])).ok

\* C11: for ipinfo, when loc is a string "<a>,<b>", the record has
\* lat = float(a) and lon = float(b); the later lon entry neither overwrites
\* nor re-processes them.
C11_PackedCoordinates ==
    (/\ AdapterGotObject
     /\ Requested(trace[1].api) = "ipinfo"
     /\ IsPackedPair(Exchange.data.body["loc"]))
    => /\ retval.ok
       /\ retval.rec["lat"]
            = ParseFloat(Strip(Split(Exchange.data.body["loc"].s, ",")[1])).v
       /\ retval.rec["lon"]
            = ParseFloat(Strip(Split(Exchange.data.body["loc"].s, ",")[2])).v

\* C11's case: ipinfo answered loc = "1.5,-2" and the record has lat 3/2 and
\* lon -2
C11_Witness ==
    /\ AdapterGotObject
    /\ Requested(trace[1].api) = "ipinfo"
    /\ Exchange.data.body["loc"] = Str(<<"1", ".", "5", ",", "-", "2">>)
    /\ retval.ok
    /\ retval.rec["lat"] = Flt(3, 2)
    /\ retval.rec["lon"] = Flt(-2, 1)

\* C12 (as claimed): the adapter returns None whenever the HTTP exchange ends
\* in a status outside 200..299, a timeout, a connection error or a body that
\* is not valid JSON, and it never raises.
C12_FailureOnBadExchange ==
    (/\ pc = "returned" /\ caller = "adapter"
     /\ \/ Exchange.kind # "http"
        \/ Exchange.status \notin 200..299
        \/ ~Exchange.json)
    => (retval = None /\ ~raised)

\* the keys of a record that come from the provider's body alone
OptionalKeys == {"city", "region", "country", "lat", "lon", "isp", "timezone"}

\* the body supplies the native field behind key k of the provider used
Supplied(k) ==
    /\ Native(Requested(trace[1].api), k) \in NativeFields
    /\ Has(Exchange.data.body, Native(Requested(trace[1].api), k))

\* the value of the native field behind lat, Absent when it is missing
NativeLat == Exchange.data.body[Native(Requested(trace[1].api), "lat")]

\* no string with a comma behind lat that is not of the form "<a>,<b>"
PackedWellFormed ==
    (NativeLat.t = "str" /\ HasChar(NativeLat.s, ",")) => IsPackedPair(NativeLat)

C14_OnceEachInRegistryOrder ==
    (pc \in {"multi", "returned"} /\ caller = "direct")
    => /\ Len(Calls) = api_idx - 1
       /\ Len(Calls) <= Len(APIS)
       /\ \A i \in 1..Len(Calls) : Calls[i].api = APIS[i]
       /\ results = SuccessRecords
       /\ pc = "returned" => Len(Calls) = Len(APIS)

\* C14's case: the first provider failed and the other two were still called,
\* their records collected in registry order
C14_Witness ==
    /\ Resolved
    /\ Failed(1) /\ ~Failed(2) /\ ~Failed(3)
    /\ Len(results) = 2
    /\ results[1]["source"] = Lit("ipinfo")
    /\ results[2]["source"] = Lit("geolocation")

\* C15: a single-provider lookup with a name that is not in the registry sends
\* the request the lookup with 'ipapi' sends and returns what that lookup
\* returns for the same exchange: the same record, its source 'ipapi', or None.
C15_UnknownProviderIsDefault ==
    (pc = "returned" /\ caller = "adapter" /\ ~InRegistry(trace[1].api))
    => /\ trace[1].url = request_url(ip_address, "ipapi")
       /\ retval = get_location_by_ip(ip_address, "ipapi", Exchange, REQUESTS_AVAILABLE)
       /\ retval.ok => retval.rec["source"] = Lit("ipapi")
       /\ ~raised

\* C15's case: the lookup with the unknown name 'ipstack' returned a record
\* with fields of ipapi's table
C15_Witness ==
    /\ pc = "returned" /\ caller = "adapter"
    /\ trace[1].api = "ipstack"
    /\ trace[1].url = <<"https://ipapi.co/">> \o Query2 \o <<"/json/">>
    /\ retval.ok
    /\ retval.rec["source"] = Lit("ipapi")
    /\ retval.rec["country"] = Str(<<"ipapi", ":", "country_name">>)
    /\ retval.rec["lat"] = Flt(1, 1)

\* the decimal value of a string of digits
RECURSIVE DecimalValue(_)
DecimalValue(s) ==
    IF s = <<>> THEN 0
    ELSE 10 * DecimalValue(SubSeq(s, 1, Len(s) - 1)) + DigitVal(s[Len(s)])

\* part is a non-empty string of digits with a value in 0..255
IsOctet(part) ==
    /\ part # <<>>
    /\ \A i \in 1..Len(part) : IsDigit(part[i])
    /\ DecimalValue(part) <= 255

\* the positions of the dots of s
Dots(s) == {i \in 1..Len(s) : s[i] = "."}

\* the text of s between the positions lo and hi, both excluded
Between(s, lo, hi) == SubSeq(s, lo + 1, hi - 1)

\* s is four octets separated by three dots
IsDottedQuad(s) ==
    /\ Cardinality(Dots(s)) = 3
    /\ \A lo \in Dots(s) \cup {0} :
          LET after == {i \in Dots(s) \cup {Len(s) + 1} : i > lo}
              hi    == CHOOSE i \in after : \A j \in after : i <= j
          IN  IsOctet(Between(s, lo, hi))

\* C16 (as claimed): _validate_ip returns True if and only if the string is
\* four dot-separated octets of digits only, each in 0..255, and it never
\* raises.
C16_ValidatesExactlyDottedQuads ==
    (pc = "returned" /\ caller = "validate")
    => (retval = Bool(IsDottedQuad(ip_address)) /\ ~raised)

\* C17 (as claimed): when track_ip or get_own_location is started for a query
\* that fails validation, no provider call is issued, the operation returns
\* None, and the table and the in-memory history stay as they are.
C17_NoCallWithoutValidation ==
    [][(caller' \in {"track_ip", "get_own_location"} /\ ~validate_ip(ip_address'))
         => /\ pc' = "idle"
            /\ Calls' = <<>>
            /\ retval' = None
            /\ db' = db
            /\ tracking_history' = tracking_history]_vars

\* C19 (as claimed): every track_ip or get_own_location that returns a result
\* appends that result once to tracking_history.
C19_EveryResultAppended ==
    [][(pc = "returned" /\ pc' = "idle" /\ retval'.ok)
         => tracking_history' = Append(tracking_history, retval'.rec)]_vars

\* C20: when save_tracking_result fails while track_ip or get_own_location
\* stores a result, no exception propagates, the result is returned, no row is
\* written, and track_ip appends the result to tracking_history.
C20_PersistenceFailureTolerated ==
    [][(pc = "returned" /\ pc' = "idle" /\ trace' = Append(trace, SaveEvent(FALSE)))
         => /\ ~raised'
            /\ retval'.ok
            /\ retval' = location
            /\ db' = db
            /\ caller = "track_ip"
                 => tracking_history' = Append(tracking_history, location.rec)]_vars

\* C20's case: track_ip returned a result that is in the history although the
\* insert failed and the table is empty
C20_Witness ==
    /\ pc = "idle"
    /\ caller = "track_ip"
    /\ trace # <<>>
    /\ trace[Len(trace)] = SaveEvent(FALSE)
    /\ retval.ok
    /\ db = <<>>
    /\ tracking_history = <<retval.rec>>

\* C18: a get_location_multi_source call for a query resolved before against
\* the same deterministic provider answers returns a result identical to the
\* first one, whatever was resolved in between.
C18_RepeatedResolutionIdentical ==
    (pc = "returned" /\ caller = "repeat" /\ mocked.first[ip_address].set)
    => (location = mocked.first[ip_address].val /\ ~raised)

\* C18's case: the query 1.2.3.4 was resolved, then 8.8.8.8, then 1.2.3.4
\* again, the two queries with different outcomes, the repeated one averaged
C18_Witness ==
    /\ pc = "returned" /\ caller = "repeat"
    /\ mocked.queries = <<Query1, Query2, Query1>>
    /\ mocked.first[Query1].val.ok
    /\ mocked.first[Query1].val.rec["accuracy"] = Lit("high")
    /\ mocked.first[Query2].val.ok
    /\ mocked.first[Query2].val.rec["accuracy"] = Lit("medium")
    /\ location = mocked.first[Query1].val

\* C22 (as claimed): within one get_location_multi_source call a delay lies
\* between every two consecutive provider calls, whether the earlier call
\* succeeded or failed.
C22_DelayBetweenCalls ==
    (pc \in {"multi", "returned"} /\ caller = "direct")
    => \A i \in 1..(Len(trace) - 1) :
          ~(trace[i].ev = "call" /\ trace[i + 1].ev = "call")

\* some successful record carries a lat or lon that is not a number
NonNumericCoordinate ==
    \/ ~AllNumbers(Collect(SuccessRecords, "lat"))
    \/ ~AllNumbers(Collect(SuccessRecords, "lon"))

\* C23: a result with accuracy high comes from at least two successful
\* providers and carries lat and lon as numbers; when a successful record
\* carries a coordinate that is not a number the call does not raise and
\* returns the first record labelled medium.
C23_HighNeedsTwoNumericSources ==
    (Resolved /\ location.ok)
    => /\ ~raised
       /\ location.rec["accuracy"] = Lit("high")
            => /\ Len(SuccessRecords) >= 2
               /\ location.rec["sources"].t = "int"
               /\ location.rec["sources"].n >= 2
               /\ location.rec["lat"].t = "float"
               /\ location.rec["lon"].t = "float"
       /\ NonNumericCoordinate => IsFirstMedium(location, SuccessRecords)

\* C23's case: two records supply numeric latitudes, a third a longitude that
\* is text, and the result is the first record labelled medium
C23_Witness ==
    /\ Resolved
    /\ Len(SuccessRecords) = 3
    /\ Len(Collect(SuccessRecords, "lat")) = 2
    /\ AllNumbers(Collect(SuccessRecords, "lat"))
    /\ Collect(SuccessRecords, "lon") = <<Str(<<"x">>)>>
    /\ location.ok
    /\ location.rec["accuracy"] = Lit("medium")
    /\ location.rec["sources"] = IntV(3)

\* the feature names the program grants or asks for
FeatureNames ==
    {"full_access", "all_methods", "real_time", "export", "api_access", "demo_mode",
     "basic_tracking"}

\* C26 (as claimed): after any sequence of validate calls has_feature(f) is
\* true for some feature f only if is_valid is true.
C26_FeaturesOnlyWhenValid ==
    (\E f \in FeatureNames : has_feature(f)) => license.is_valid

\* C21 (as claimed): a result written with save_tracking_result and read back
\* at once with get_tracking_history(limit=1) yields one row, whose target,
\* latitude, longitude, city, country, isp, source and accuracy are the
\* written target and the result's lat, lon, city, country, isp, source and
\* accuracy, whatever was inserted before.
C21_RoundTrip ==
    [][(/\ caller = "database"
        /\ trace = <<SaveEvent(TRUE)>>
        /\ trace' = <<SaveEvent(TRUE), HistoryEvent(TRUE)>>)
         => /\ Len(retval') = 1
            /\ retval'[1].target = Str(ip_address)
            /\ retval'[1].latitude = Get(location.rec, "lat")
            /\ retval'[1].longitude = Get(location.rec, "lon")
            /\ retval'[1].city = Get(location.rec, "city")
            /\ retval'[1].country = Get(location.rec, "country")
            /\ retval'[1].isp = Get(location.rec, "isp")
            /\ retval'[1].source = location.rec["source"]
            /\ retval'[1].accuracy = location.rec["accuracy"]]_vars

\* the user confirmed and the DELETE statements were committed
Confirmed(event) ==
    event.ev = "clear" /\ Lower(event.answer) = <<"y">> /\ event.deleted

\* C25: the in-memory history shrinks only in a clear_history call the user
\* confirmed and whose delete of both tables succeeded, and then both tables
\* and the in-memory history are empty; when the user declines or the delete
\* fails, the tables and the in-memory history stay as they were; every other
\* step leaves the stored rows as they are or adds one row at the end.
C25_ClearOnlyWhenConfirmedAndDeleted ==
    [][IF caller' = "clear_history" /\ trace' # trace
       THEN IF Confirmed(trace'[1])
            THEN db' = <<>> /\ ip_history' = <<>> /\ tracking_history' = <<>>
            ELSE UNCHANGED <<db, ip_history, tracking_history>>
       ELSE /\ Len(tracking_history') >= Len(tracking_history)
            /\ ip_history' = ip_history
            /\ \/ db' = db
               \/ Len(db') = Len(db) + 1 /\ SubSeq(db', 1, Len(db)) = db]_vars

\* a confirmed, successful clear of a non-empty table and a non-empty
\* in-memory history
C25_Witness ==
    /\ caller = "clear_history"
    /\ Confirmed(trace[1])
    /\ trace[1].rows > 0
    /\ trace[1].held > 0
    /\ db = <<>>
    /\ tracking_history = <<>>

\* the lines of a file that hold more than blanks
NonEmptyLines(lines) == {k \in 1..Len(lines) : Strip(lines[k]) # <<>>}

\* C24: bulk_track_ips returns the results of the lines it resolved, in the
\* order of the lines; a line that fails validation causes no provider call
\* and no result; the results are the entries appended to the in-memory
\* history during the call, as many as were appended and never more than
\* the file has non-empty lines.
C24_BulkResultsInLineOrder ==
    [][/\ (/\ bulk.phase = "loop"
           /\ bulk.i <= Len(bulk.ips)
           /\ ~validate_ip(bulk.ips[bulk.i])
           /\ bulk' # bulk)
            => /\ UNCHANGED <<pc, trace, tracking_history, db>>
               /\ bulk'.results = bulk.results
       /\ (bulk.phase # "done" /\ bulk'.phase = "done")
            => LET returned == bulk'.results
                   from     == bulk'.from
               IN  /\ retval' = returned
                   /\ Len(returned) = Len(tracking_history') - bulk'.before
                   /\ Len(returned) <= Cardinality(NonEmptyLines(bulk'.lines))
                   /\ \A k \in 1..Len(returned) :
                         /\ returned[k] = tracking_history'[bulk'.before + k]
                         /\ from[k] \in 1..Len(bulk'.ips)
                         /\ validate_ip(bulk'.ips[from[k]])
                   /\ \A k \in 1..(Len(returned) - 1) : from[k] < from[k + 1]]_vars

\* a call that returned two results from a file of two valid lines
C24_Witness ==
    /\ bulk.phase = "done"
    /\ caller = "bulk_track_ips"
    /\ Len(bulk.results) = 2
    /\ bulk.from = <<1, 2>>
    /\ retval = bulk.results

====
